---- MODULE Spec2Model ----
(***************************************************************************)
(* Model of the folder-based AI worker of SukoonMusicPlayer                *)
(* (src/ai_worker.py): a single sequential loop that polls                 *)
(* ai_tasks/pending, moves the first task file to in_progress, asks the    *)
(* code-generation agent to implement it, then runs a bounded build / fix  *)
(* loop and archives the task file in done or failed.                      *)
(*                                                                         *)
(* File names are sequences of character codes so that glob("*.md") and    *)
(* sorted() are computed on the names themselves.  The run_codex and       *)
(* build_project subprocesses are external: their exit codes and the build *)
(* output are nondeterministic inputs.  Path.rename follows the Windows    *)
(* semantics (an existing target is an error), the platform the worker's   *)
(* hard-coded codex.cmd / powershell commands run on.                      *)
(***************************************************************************)
EXTENDS Integers, Sequences, FiniteSets, TLC

VARIABLES
    fs,             \* the task store: <<directory, file name>> -> content or NoFile
    pc,             \* position of main_loop
    task_file,      \* main_loop local: path of the current task, or None
    task_content,   \* main_loop local: text returned by read_task
    attempt,        \* main_loop local: loop variable of range(5)
    build_success,  \* main_loop local
    output,         \* main_loop local: stdout + stderr of the last build
    trimmed_log,    \* fix_build_with_codex local: part of the log put in the prompt
    calls,          \* history: per task name, the agent / build calls made and their exit codes
    error,          \* the exception that ended main_loop, or "none"
    me,             \* which worker process the main_loop variables above belong to
    peer,           \* the main_loop variables of the other worker process, if one runs
    acquired,       \* history: per task name, the processes whose move to in_progress succeeded
    qa              \* the QA report generator (src/qa_agent.py): graph position, state, files

vars == <<fs, pc, task_file, task_content, attempt, build_success, output,
          trimmed_log, calls, error, me, peer, acquired, qa>>

-----------------------------------------------------------------------------
(* Bounds of the model *)

\* at most this many files are ever present in the store
MaxFiles == 2
\* build outputs are up to this many characters longer than the trim length
MaxOver == 1

-----------------------------------------------------------------------------
(* File names and directories *)

PENDING_DIR == "pending"
IN_PROGRESS_DIR == "in_progress"
DONE_DIR == "done"
FAILED_DIR == "failed"

Dirs == {PENDING_DIR, IN_PROGRESS_DIR, DONE_DIR, FAILED_DIR}

\* "a.md", "a-b.md", "b.md", "a.txt" as sequences of code points
\* ('-' = 45, '.' = 46, 'a' = 97, 'b' = 98, 'd' = 100, 'm' = 109, 't' = 116, 'x' = 120)
Name_a == <<97, 46, 109, 100>>
Name_a_b == <<97, 45, 98, 46, 109, 100>>
Name_b == <<98, 46, 109, 100>>
Name_a_txt == <<97, 46, 116, 120, 116>>

Names == {Name_a, Name_a_b, Name_b, Name_a_txt}

\* ".md"
MdSuffix == <<46, 109, 100>>

NoFile == "absent"
\* file contents: text that decodes as UTF-8, or bytes that do not
Contents == {"utf8_text", "invalid_utf8"}

None == [dir |-> "none", name |-> <<>>]

Path(d, n) == [dir |-> d, name |-> n]

Exists(f, p) == p # None /\ f[<<p.dir, p.name>>] # NoFile

Files(f, d) == {n \in Names : f[<<d, n>>] # NoFile}

AllFiles(f) == {k \in Dirs \X Names : f[k] # NoFile}

-----------------------------------------------------------------------------
(* Task handling *)

EndsWith(s, suffix) ==
    /\ Len(s) >= Len(suffix)
    /\ SubSeq(s, Len(s) - Len(suffix) + 1, Len(s)) = suffix

\* str.__lt__: code-point lexicographic order
RECURSIVE StrLess(_, _)
StrLess(s, t) ==
    IF t = <<>> THEN FALSE
    ELSE IF s = <<>> THEN TRUE
    ELSE IF Head(s) # Head(t) THEN Head(s) < Head(t)
    ELSE StrLess(Tail(s), Tail(t))

\* variant: the pattern is matched in every directory of the store
GlobAnyDir(f) == {n \in Names : EndsWith(n, MdSuffix) /\ \E d \in Dirs : f[<<d, n>>] # NoFile}

\* variant: tasks left in in_progress are listed too
GlobResume(f) ==
    {n \in Files(f, PENDING_DIR) \cup Files(f, IN_PROGRESS_DIR) : EndsWith(n, MdSuffix)}

\* variant: the pattern is "?.md", a single character before the suffix
GlobOneChar(f) == {n \in Files(f, PENDING_DIR) : EndsWith(n, MdSuffix) /\ Len(n) = Len(MdSuffix) + 1}

\* PENDING_DIR.glob("*.md")
Glob(f) == {n \in Files(f, PENDING_DIR) : EndsWith(n, MdSuffix)}

\* sorted(...)
RECURSIVE Sorted(_)
Sorted(S) ==
    IF S = {} THEN <<>>
    ELSE LET m == CHOOSE x \in S : \A y \in S : y = x \/ StrLess(x, y)
         IN <<m>> \o Sorted(S \ {m})

\* variant: the last file of the sorted list is returned
get_next_task_file_last(f) ==
    LET files == Sorted(Glob(f))
    IN IF files = <<>> THEN None ELSE Path(PENDING_DIR, files[Len(files)])

\* get_next_task_file: files[0] of the sorted list, or None
get_next_task_file(f) ==
    LET files == Sorted(Glob(f))
    IN IF files = <<>> THEN None ELSE Path(PENDING_DIR, files[1])

\* variant: an existing target is replaced silently, as rename does on POSIX
RenameErrorReplace(f, src, target) ==
    IF ~Exists(f, src) THEN "FileNotFoundError" ELSE "none"

\* variant: a missing source is not an error
RenameErrorMissingOk(f, src, target) ==
    IF target # src /\ Exists(f, target) THEN "FileExistsError" ELSE "none"

\* Path.rename: the error it raises, or "none"
RenameError(f, src, target) ==
    IF ~Exists(f, src) THEN "FileNotFoundError"
    ELSE IF target # src /\ Exists(f, target) THEN "FileExistsError"
    ELSE "none"

\* variant: the file is copied, the source is kept
RenameCopy(f, src, target) ==
    [f EXCEPT ![<<target.dir, target.name>>] = f[<<src.dir, src.name>>]]

\* Path.rename when it raises nothing
Rename(f, src, target) ==
    IF target = src THEN f
    ELSE [f EXCEPT ![<<target.dir, target.name>>] = f[<<src.dir, src.name>>],
                   ![<<src.dir, src.name>>] = NoFile]

\* variant: the target is named b.md whatever the source is called
move_task_same_name(f, src_path, target_dir) ==
    LET target_path == Path(target_dir, Name_b)
        err == RenameError(f, src_path, target_path)
    IN [path |-> target_path,
        error |-> err,
        fs |-> IF err = "none" THEN Rename(f, src_path, target_path) ELSE f]

\* variant: the target path is returned but the file is not renamed
move_task_skip(f, src_path, target_dir) ==
    [path |-> Path(target_dir, src_path.name), error |-> "none", fs |-> f]

\* move_task: target path, raised error and store afterwards
move_task(f, src_path, target_dir) ==
    LET target_path == Path(target_dir, src_path.name)
        err == RenameError(f, src_path, target_path)
    IN [path |-> target_path,
        error |-> err,
        fs |-> IF err = "none" THEN Rename(f, src_path, target_path) ELSE f]

\* read_task: the text, or the error raised
read_task(f, task_path) ==
    IF ~Exists(f, task_path) THEN [error |-> "FileNotFoundError", text |-> ""]
    ELSE IF f[<<task_path.dir, task_path.name>>] = "invalid_utf8"
         THEN [error |-> "UnicodeDecodeError", text |-> ""]
    ELSE [error |-> "none", text |-> f[<<task_path.dir, task_path.name>>]]

-----------------------------------------------------------------------------
(* External processes *)

\* exit codes a subprocess can return
ExitCodes == {0, 1}

\* variant: the return code is not looked at
run_codex_ignores_code(returncode) == TRUE

\* run_codex: True unless the agent's return code is non-zero
run_codex(returncode) == ~(returncode # 0)

\* number of characters of the build log kept for the fix prompt
TRIM == 1000

\* range(5) of the build + fix loop
MaxAttempts == 5

\* lengths of the build outputs tried: empty, and around the trim length
OutLens == {0} \cup ((TRIM - 1) .. (TRIM + MaxOver))

\* a build output of n characters, the i-th character having code i
Output(n) == [i \in 1 .. n |-> i]

\* s[start:] of a Python str
PySliceFrom(s, start) ==
    LET from0 == IF start < 0 THEN start + Len(s) ELSE start
        from1 == IF from0 < 0 THEN 0 ELSE IF from0 > Len(s) THEN Len(s) ELSE from0
    IN SubSeq(s, from1 + 1, Len(s))

\* variant: error_log[:1000], the head of the log
TrimLogHead(error_log) ==
    SubSeq(error_log, 1, IF Len(error_log) < TRIM THEN Len(error_log) ELSE TRIM)

\* fix_build_with_codex: trimmed_log = error_log[-1000:]
TrimLog(error_log) == PySliceFrom(error_log, 0 - TRIM)

\* variant: one attempt fewer
MoreAttemptsShort(a) == a + 1 < MaxAttempts - 1

\* variant: one attempt more
MoreAttemptsLong(a) == a + 1 < MaxAttempts + 1

\* variant: twice as many attempts
MoreAttemptsTwice(a) == a + 1 < 2 * MaxAttempts

\* for attempt in range(5): whether another attempt follows attempt a
MoreAttempts(a) == a + 1 < MaxAttempts

\* variant: a task whose implementation failed is left where it is
ImplementFailedDirStay == IN_PROGRESS_DIR

\* where main_loop moves a task whose implementation call failed
ImplementFailedDir == FAILED_DIR

\* variant: a task whose builds failed is queued again
FinalDirRequeue(ok) == IF ok THEN DONE_DIR ELSE PENDING_DIR

\* variant: the task is archived as done whatever the builds returned
FinalDirAlwaysDone(ok) == DONE_DIR

\* variant: a task whose builds failed is left in in_progress
FinalDirStay(ok) == IF ok THEN DONE_DIR ELSE IN_PROGRESS_DIR

\* where main_loop moves a task after the build + fix loop
FinalDir(ok) == IF ok THEN DONE_DIR ELSE FAILED_DIR

\* the history of calls with one more call for the task named n
Record(c, n, op, rc) == [c EXCEPT ![n] = Append(@, [op |-> op, rc |-> rc])]

-----------------------------------------------------------------------------
(* Worker processes *)

\* a second worker process is not running
NoPeer ==
    [pc |-> "off", task_file |-> None, task_content |-> "", attempt |-> 0,
     build_success |-> FALSE, output |-> <<>>, trimmed_log |-> <<>>,
     error |-> "none", me |-> 0]

\* a worker process that has just entered main_loop
StartedPeer(id) == [NoPeer EXCEPT !.pc = "poll", !.me = id]

-----------------------------------------------------------------------------
(* QA report generator (src/qa_agent.py) *)

\* the text read_qa substitutes for a missing checklist
QaMissing == "Q&A file missing."

\* release_qa.txt: absent, not decodable, or one of these texts
QaTexts == {"", "all YES", "billing: NO", "playback: UNSURE", QaMissing}
QaFiles == {NoFile, "invalid_utf8"} \cup QaTexts

\* response.output_text of the language model
QaReports == {"", "SAFE TO SHIP", "FIX BEFORE RELEASE", "RISK: billing", "RISK: crash"}

\* qa_output/qa_decision.txt before the run: absent or left by an earlier run
QaOldDecisions == {NoFile, "old decision"}

\* the generator is not running
QaOff ==
    [node |-> "off", state |-> [qa_text |-> "", report |-> ""],
     release_qa |-> NoFile, qa_decision |-> NoFile,
     prompt |-> [template |-> "none", qa_text |-> ""], ran |-> <<>>, error |-> "none"]

\* the edges of the graph: entry point, read_qa -> analyze_qa -> save_report -> END
QaEntry == "read_qa"
QaEdge(node) ==
    CASE node = "read_qa" -> "analyze_qa"
      [] node = "analyze_qa" -> "save_report"
      [] node = "save_report" -> "END"

\* variant: a missing checklist leaves qa_text as it is
read_qa_keep(state, file) ==
    IF file = NoFile THEN [error |-> "none", state |-> state]
    ELSE IF file = "invalid_utf8" THEN [error |-> "UnicodeDecodeError", state |-> state]
    ELSE [error |-> "none", state |-> [state EXCEPT !.qa_text = file]]

\* read_qa: the new state, or the error raised
read_qa(state, file) ==
    IF file = NoFile THEN [error |-> "none", state |-> [state EXCEPT !.qa_text = QaMissing]]
    ELSE IF file = "invalid_utf8" THEN [error |-> "UnicodeDecodeError", state |-> state]
    ELSE [error |-> "none", state |-> [state EXCEPT !.qa_text = file]]

\* analyze_qa: the prompt embeds state['qa_text']
QaPrompt(state) == [template |-> "release checklist analysis", qa_text |-> state.qa_text]

\* app.invoke({"qa_text": "", "report": ""}) is about to run the entry node
InitQA ==
    /\ \E file \in QaFiles, old \in QaOldDecisions :
          qa = [QaOff EXCEPT !.node = QaEntry, !.release_qa = file, !.qa_decision = old]
    /\ fs = [k \in Dirs \X Names |-> NoFile]
    /\ pc = "off"
    /\ task_file = None
    /\ task_content = ""
    /\ attempt = 0
    /\ build_success = FALSE
    /\ output = <<>>
    /\ trimmed_log = <<>>
    /\ calls = [n \in Names |-> <<>>]
    /\ error = "none"
    /\ me = 1
    /\ peer = NoPeer
    /\ acquired = [n \in Names |-> {}]

worker_vars ==
    <<fs, pc, task_file, task_content, attempt, build_success, output,
      trimmed_log, calls, error, me, peer, acquired>>

\* node read_qa
QaReadQa ==
    /\ qa.node = "read_qa"
    /\ LET r == read_qa(qa.state, qa.release_qa)
       IN IF r.error # "none"
          THEN qa' = [qa EXCEPT !.node = "crashed", !.error = r.error]
          ELSE qa' = [qa EXCEPT !.state = r.state, !.node = QaEdge("read_qa"),
                                !.ran = Append(@, "read_qa")]
    /\ UNCHANGED worker_vars

\* node analyze_qa: client.responses.create(input=prompt); state["report"] = output_text
QaAnalyzeQa ==
    /\ qa.node = "analyze_qa"
    /\ \E output_text \in QaReports :
          qa' = [qa EXCEPT !.prompt = QaPrompt(qa.state),
                           !.state = [qa.state EXCEPT !.report = output_text],
                           !.node = QaEdge("analyze_qa"),
                           !.ran = Append(@, "analyze_qa")]
    /\ UNCHANGED worker_vars

\* node save_report: qa_output/qa_decision.txt is written with state["report"]
QaSaveReport ==
    /\ qa.node = "save_report"
    /\ qa' = [qa EXCEPT !.qa_decision = qa.state.report,
                        !.node = QaEdge("save_report"),
                        !.ran = Append(@, "save_report")]
    /\ UNCHANGED worker_vars

NextQA ==
    \/ QaReadQa
    \/ QaAnalyzeQa
    \/ QaSaveReport

SpecQA == InitQA /\ [][NextQA]_vars

-----------------------------------------------------------------------------
(* Initial state: main_loop is about to poll a store whose file names are   *)
(* unique across the four directories.                                      *)

Init ==
    /\ \E place \in [Names -> Dirs \cup {"nowhere"}], content \in [Names -> Contents] :
          /\ Cardinality({n \in Names : place[n] # "nowhere"}) <= MaxFiles
          /\ fs = [k \in Dirs \X Names |->
                      IF place[k[2]] = k[1] THEN content[k[2]] ELSE NoFile]
    /\ pc = "poll"
    /\ task_file = None
    /\ task_content = ""
    /\ attempt = 0
    /\ build_success = FALSE
    /\ output = <<>>
    /\ trimmed_log = <<>>
    /\ calls = [n \in Names |-> <<>>]
    /\ error = "none"
    /\ me = 1
    /\ peer = NoPeer
    /\ acquired = [n \in Names |-> {}]
    /\ qa = QaOff

-----------------------------------------------------------------------------
(* main_loop *)

\* an uncaught exception leaves main_loop
Raise(e) ==
    /\ pc' = "crashed"
    /\ error' = e

\* task_file = get_next_task_file(); if not task_file: ... continue
Poll ==
    /\ pc = "poll"
    /\ task_file' = get_next_task_file(fs)
    /\ pc' = IF task_file' = None THEN "sleep" ELSE "acquire"
    /\ UNCHANGED <<fs, task_content, attempt, build_success, output, trimmed_log,
                   calls, error>>
    /\ UNCHANGED <<me, peer, acquired, qa>>

\* time.sleep(300); continue
Sleep ==
    /\ pc = "sleep"
    /\ pc' = "poll"
    /\ UNCHANGED <<fs, task_file, task_content, attempt, build_success, output,
                   trimmed_log, calls, error>>
    /\ UNCHANGED <<me, peer, acquired, qa>>

\* task_file = move_task(task_file, IN_PROGRESS_DIR)
Acquire ==
    /\ pc = "acquire"
    /\ LET r == move_task(fs, task_file, IN_PROGRESS_DIR)
       IN IF r.error # "none"
          THEN /\ Raise(r.error)
               /\ UNCHANGED <<fs, task_file>>
          ELSE /\ fs' = r.fs
               /\ task_file' = r.path
               /\ pc' = "read"
               /\ UNCHANGED error
    /\ acquired' = IF pc' = "read"
                   THEN [acquired EXCEPT ![task_file.name] = @ \cup {me}]
                   ELSE acquired
    /\ UNCHANGED <<task_content, attempt, build_success, output, trimmed_log, calls>>
    /\ UNCHANGED <<me, peer, qa>>

\* task_content = read_task(task_file)
ReadTask ==
    /\ pc = "read"
    /\ LET r == read_task(fs, task_file)
       IN IF r.error # "none"
          THEN /\ Raise(r.error)
               /\ UNCHANGED task_content
          ELSE /\ task_content' = r.text
               /\ pc' = "implement"
               /\ UNCHANGED error
    /\ UNCHANGED <<fs, task_file, attempt, build_success, output, trimmed_log, calls>>
    /\ UNCHANGED <<me, peer, acquired, qa>>

\* success = run_codex(implement prompt); if not success: move to failed, continue;
\* else build_success = False and enter the loop
Implement ==
    /\ pc = "implement"
    /\ \E rc \in ExitCodes :
          /\ calls' = Record(calls, task_file.name, "implement", rc)
          /\ IF ~run_codex(rc)
             THEN /\ UNCHANGED <<attempt, build_success>>
                  /\ LET r == move_task(fs, task_file, ImplementFailedDir)
                     IN IF r.error # "none"
                        THEN /\ Raise(r.error)
                             /\ UNCHANGED fs
                        ELSE /\ fs' = r.fs
                             /\ pc' = "poll"
                             /\ UNCHANGED error
             ELSE /\ build_success' = FALSE
                  /\ attempt' = 0
                  /\ pc' = "build"
                  /\ UNCHANGED <<fs, error>>
    /\ UNCHANGED <<task_file, task_content, output, trimmed_log>>
    /\ UNCHANGED <<me, peer, acquired, qa>>

\* code, output = build_project(); if code == 0: build_success = True; break
Build ==
    /\ pc = "build"
    /\ \E code \in ExitCodes, n \in OutLens :
          /\ calls' = Record(calls, task_file.name, "build", code)
          /\ IF code = 0
             THEN /\ build_success' = TRUE
                  /\ output' = <<>>
                  /\ pc' = "finalize"
             ELSE /\ output' = Output(n)
                  /\ pc' = "fix"
                  /\ UNCHANGED build_success
    /\ UNCHANGED <<fs, task_file, task_content, attempt, trimmed_log, error>>
    /\ UNCHANGED <<me, peer, acquired, qa>>

\* fix_build_with_codex(output), up to the prompt
FixPrompt ==
    /\ pc = "fix"
    /\ trimmed_log' = TrimLog(output)
    /\ pc' = "fix_codex"
    /\ UNCHANGED <<fs, task_file, task_content, attempt, build_success, output,
                   calls, error>>
    /\ UNCHANGED <<me, peer, acquired, qa>>

\* return run_codex(prompt); if not fix_success: break; time.sleep(2); next attempt
FixCodex ==
    /\ pc = "fix_codex"
    /\ \E rc \in ExitCodes :
          /\ calls' = Record(calls, task_file.name, "fix", rc)
          /\ IF ~run_codex(rc)
             THEN /\ pc' = "finalize"
                  /\ UNCHANGED attempt
             ELSE IF MoreAttempts(attempt)
                  THEN /\ attempt' = attempt + 1
                       /\ pc' = "build"
                  ELSE /\ pc' = "finalize"
                       /\ UNCHANGED attempt
    /\ output' = <<>>
    /\ trimmed_log' = <<>>
    /\ UNCHANGED <<fs, task_file, task_content, build_success, error>>
    /\ UNCHANGED <<me, peer, acquired, qa>>

\* if build_success: move_task(task_file, DONE_DIR) else move_task(task_file, FAILED_DIR);
\* time.sleep(5)
Finalize ==
    /\ pc = "finalize"
    /\ LET r == move_task(fs, task_file, FinalDir(build_success))
       IN IF r.error # "none"
          THEN /\ Raise(r.error)
               /\ UNCHANGED fs
          ELSE /\ fs' = r.fs
               /\ pc' = "poll"
               /\ UNCHANGED error
    /\ UNCHANGED <<task_file, task_content, attempt, build_success, output,
                   trimmed_log, calls>>
    /\ UNCHANGED <<me, peer, acquired, qa>>

\* a new task file with a fresh name is dropped into pending from outside
Drop ==
    /\ Cardinality(AllFiles(fs)) < MaxFiles
    /\ \E n \in Names, c \in Contents :
          /\ \A d \in Dirs : fs[<<d, n>>] = NoFile
          /\ fs' = [fs EXCEPT ![<<PENDING_DIR, n>>] = c]
    /\ UNCHANGED <<pc, task_file, task_content, attempt, build_success, output,
                   trimmed_log, calls, error>>
    /\ UNCHANGED <<me, peer, acquired, qa>>

Next ==
    \/ Poll
    \/ Sleep
    \/ Acquire
    \/ ReadTask
    \/ Implement
    \/ Build
    \/ FixPrompt
    \/ FixCodex
    \/ Finalize
    \/ Drop

Spec == Init /\ [][Next]_vars

\* the worker is started on a store whose in_progress directory is empty
InitClean == Init /\ Files(fs, IN_PROGRESS_DIR) = {}

SpecClean == InitClean /\ [][Next]_vars

\* a store that other programs write too: the same name may be in several
\* directories at start, and files may be deleted from outside
OpenNames == {Name_a, Name_b}

InitOpen ==
    /\ \E held \in {h \in SUBSET (Dirs \X OpenNames) : Cardinality(h) <= MaxFiles} :
          \E content \in [held -> Contents] :
             fs = [k \in Dirs \X Names |-> IF k \in held THEN content[k] ELSE NoFile]
    /\ pc = "poll"
    /\ task_file = None
    /\ task_content = ""
    /\ attempt = 0
    /\ build_success = FALSE
    /\ output = <<>>
    /\ trimmed_log = <<>>
    /\ calls = [n \in Names |-> <<>>]
    /\ error = "none"
    /\ me = 1
    /\ peer = NoPeer
    /\ acquired = [n \in Names |-> {}]
    /\ qa = QaOff

\* a file of the store is deleted from outside
Remove ==
    /\ \E k \in AllFiles(fs) : fs' = [fs EXCEPT ![k] = NoFile]
    /\ UNCHANGED <<pc, task_file, task_content, attempt, build_success, output,
                   trimmed_log, calls, error, me, peer, acquired, qa>>

NextOpen ==
    \/ Poll
    \/ Sleep
    \/ Acquire
    \/ ReadTask
    \/ Implement
    \/ Build
    \/ FixPrompt
    \/ FixCodex
    \/ Finalize
    \/ Remove

SpecOpen == InitOpen /\ [][NextOpen]_vars

\* two worker processes are started on a store with task files waiting in pending
Init2W ==
    /\ \E waiting \in SUBSET OpenNames :
          fs = [k \in Dirs \X Names |->
                   IF k[1] = PENDING_DIR /\ k[2] \in waiting THEN "utf8_text" ELSE NoFile]
    /\ pc = "poll"
    /\ task_file = None
    /\ task_content = ""
    /\ attempt = 0
    /\ build_success = FALSE
    /\ output = <<>>
    /\ trimmed_log = <<>>
    /\ calls = [n \in Names |-> <<>>]
    /\ error = "none"
    /\ me = 1
    /\ peer = StartedPeer(2)
    /\ acquired = [n \in Names |-> {}]
    /\ qa = QaOff

\* the operating system runs the other worker process: the main_loop variables
\* now show that process, and this one waits as the peer
Switch ==
    /\ peer.pc # "off"
    /\ peer' = [pc |-> pc, task_file |-> task_file, task_content |-> task_content,
                attempt |-> attempt, build_success |-> build_success,
                output |-> output, trimmed_log |-> trimmed_log, error |-> error,
                me |-> me]
    /\ pc' = peer.pc
    /\ task_file' = peer.task_file
    /\ task_content' = peer.task_content
    /\ attempt' = peer.attempt
    /\ build_success' = peer.build_success
    /\ output' = peer.output
    /\ trimmed_log' = peer.trimmed_log
    /\ error' = peer.error
    /\ me' = peer.me
    /\ UNCHANGED <<fs, calls, acquired, qa>>

Next2W ==
    \/ Poll
    \/ Sleep
    \/ Acquire
    \/ ReadTask
    \/ Implement
    \/ Build
    \/ FixPrompt
    \/ FixCodex
    \/ Finalize
    \/ Switch

Spec2W == Init2W /\ [][Next2W]_vars

\* main_loop keeps running: every call it makes returns and every sleep ends
Worker ==
    Poll \/ Sleep \/ Acquire \/ ReadTask \/ Implement \/ Build \/ FixPrompt
        \/ FixCodex \/ Finalize

\* the worker is started on a store whose files all wait in pending
InitPending == Init /\ \A k \in AllFiles(fs) : k[1] = PENDING_DIR

FairSpec == InitPending /\ [][Next]_vars /\ WF_vars(Worker)

-----------------------------------------------------------------------------
(* Vocabulary of the properties *)

\* the directories that hold a file named n
DirsOf(f, n) == {d \in Dirs : f[<<d, n>>] # NoFile}

\* the file named n is in directory d and in no other
InOnly(f, n, d) == DirsOf(f, n) = {d}

\* main_loop is between the implementation call and the final move of task n
InFlight(n) ==
    /\ task_file.name = n
    /\ pc \in {"implement", "build", "fix", "fix_codex", "finalize"}

\* the iteration that processed task n is over
Finished(n) == calls[n] # <<>> /\ ~InFlight(n)

\* a worker step, as opposed to a file dropped from outside
WorkerStep == pc' # pc

\* the three moves of the task lifecycle
Transitions ==
    {<<PENDING_DIR, IN_PROGRESS_DIR>>, <<IN_PROGRESS_DIR, DONE_DIR>>,
     <<IN_PROGRESS_DIR, FAILED_DIR>>}

-----------------------------------------------------------------------------
(* C1: with a single worker and file names unique across the store at      *)
(* start, every file name is in at most one of the four directories in     *)
(* every reachable state, and a name that is in exactly one directory is   *)
(* still in exactly one directory after any step: no move leaves a task in *)
(* two directories or in none.                                             *)
C1_ExactlyOneDirectory ==
    /\ [](\A n \in Names : Cardinality(DirsOf(fs, n)) <= 1)
    /\ [][\A n \in Names :
             Cardinality(DirsOf(fs, n)) = 1 => Cardinality(DirsOf(fs', n)) = 1]_vars

\* two tasks have been moved twice each, one to done and one to failed
C1_Witness ==
    \E n, m \in Names :
        /\ calls[n] # <<>> /\ InOnly(fs, n, DONE_DIR)
        /\ calls[m] # <<>> /\ InOnly(fs, m, FAILED_DIR)
        /\ pc = "poll"

(* C2: a worker step changes the location of a task only along             *)
(* pending -> in_progress, in_progress -> done or in_progress -> failed;   *)
(* so a task in done or failed is never moved again and no worker step     *)
(* puts a task into pending.                                               *)
C2_OnlyThreeTransitions ==
    [][WorkerStep =>
         \A n \in Names :
            \/ DirsOf(fs', n) = DirsOf(fs, n)
            \/ \E t \in Transitions :
                  DirsOf(fs, n) = {t[1]} /\ DirsOf(fs', n) = {t[2]}]_vars

\* a task that went through five failed builds has just been archived in failed
C2_Witness ==
    \E n \in Names :
        /\ pc = "poll"
        /\ task_file = Path(IN_PROGRESS_DIR, n)
        /\ ~build_success
        /\ Len(calls[n]) = 11
        /\ InOnly(fs, n, FAILED_DIR)

(* C3: a task whose implementation call returned failure is in failed and  *)
(* in no other directory as soon as that call is handled, and the          *)
(* implementation call stays the only call ever made for it: no build, no  *)
(* fix prompt.                                                             *)
C3_ImplementFailureGoesToFailed ==
    \A n \in Names :
        (calls[n] # <<>> /\ calls[n][1].rc # 0) =>
            /\ calls[n] = <<[op |-> "implement", rc |-> calls[n][1].rc]>>
            /\ InOnly(fs, n, FAILED_DIR)
            /\ ~InFlight(n)

\* a task's implementation call failed and the worker has polled again since
C3_Witness ==
    \E n \in Names :
        /\ calls[n] = <<[op |-> "implement", rc |-> 1]>>
        /\ InOnly(fs, n, FAILED_DIR)
        /\ pc \in {"sleep", "acquire"}

-----------------------------------------------------------------------------
(* Call histories *)

Ev(op, rc) == [op |-> op, rc |-> rc]

IsPrefix(p, s) == Len(p) <= Len(s) /\ SubSeq(s, 1, Len(p)) = p

\* the calls of kind op in the history L
CallsOf(L, op) == SelectSeq(L, LAMBDA e : e.op = op)

\* k rounds of a failed build followed by a successful fix call
RECURSIVE FailedRounds(_)
FailedRounds(k) ==
    IF k = 0 THEN <<>>
    ELSE <<Ev("build", 1), Ev("fix", 0)>> \o FailedRounds(k - 1)

\* implementation succeeds, k builds fail and are fixed, build k+1 succeeds
BuildsOnAttempt(k) == <<Ev("implement", 0)>> \o FailedRounds(k) \o <<Ev("build", 0)>>

\* implementation succeeds, five builds fail and each is followed by a fix call
AllBuildsFail == <<Ev("implement", 0)>> \o FailedRounds(5)

\* the implementation call and every fix call of L succeeded
AgentAlwaysOk(L) ==
    /\ L # <<>>
    /\ L[1].rc = 0
    /\ \A i \in DOMAIN L : L[i].op = "fix" => L[i].rc = 0

\* the answers recorded in L are those of: the first k builds return non-zero,
\* build k+1 returns zero, every agent call succeeds
AnswersBuildOn(L, k) ==
    /\ AgentAlwaysOk(L)
    /\ LET B == CallsOf(L, "build")
       IN \A i \in DOMAIN B : /\ i <= k => B[i].rc # 0
                              /\ i = k + 1 => B[i].rc = 0

\* the answers recorded in L are those of: every build returns non-zero,
\* every agent call succeeds
AnswersNoBuild(L) ==
    /\ AgentAlwaysOk(L)
    /\ \A i \in DOMAIN L : L[i].op = "build" => L[i].rc # 0

-----------------------------------------------------------------------------
(* C4: for every k in 0..4, a task for which the implementation call        *)
(* succeeds, the first k builds return non-zero, every fix call succeeds    *)
(* and build k+1 returns zero has, while it is processed, a history that is *)
(* a prefix of: implement, k times (build, fix), build; and once its        *)
(* iteration is over the history is exactly that (k+1 builds, k fix         *)
(* prompts) and the task is in done.                                        *)
C4_BuildSucceedsOnAttempt ==
    \A n \in Names : \A k \in 0 .. 4 :
        AnswersBuildOn(calls[n], k) =>
            /\ IsPrefix(calls[n], BuildsOnAttempt(k))
            /\ Finished(n) =>
                  /\ calls[n] = BuildsOnAttempt(k)
                  /\ Len(CallsOf(calls[n], "build")) = k + 1
                  /\ Len(CallsOf(calls[n], "fix")) = k
                  /\ InOnly(fs, n, DONE_DIR)

\* one task was done on its first build, another on its fifth after four fix prompts
C4_Witness ==
    \E n, m \in Names :
        /\ Finished(n) /\ calls[n] = BuildsOnAttempt(0) /\ InOnly(fs, n, DONE_DIR)
        /\ Finished(m) /\ calls[m] = BuildsOnAttempt(4) /\ InOnly(fs, m, DONE_DIR)

(* C5: a task for which the implementation call succeeds, every build       *)
(* returns non-zero and every fix call succeeds has a history that is a     *)
(* prefix of: implement, 5 times (build, fix); once its iteration is over   *)
(* the history is exactly that (5 builds, 5 fix prompts, the last call      *)
(* being the fix prompt after the fifth build) and the task is in failed.   *)
C5_AllBuildsFail ==
    \A n \in Names :
        AnswersNoBuild(calls[n]) =>
            /\ IsPrefix(calls[n], AllBuildsFail)
            /\ Finished(n) =>
                  /\ calls[n] = AllBuildsFail
                  /\ Len(CallsOf(calls[n], "build")) = 5
                  /\ Len(CallsOf(calls[n], "fix")) = 5
                  /\ calls[n][Len(calls[n])].op = "fix"
                  /\ InOnly(fs, n, FAILED_DIR)

\* a task has been archived in failed after five failed builds and five fix prompts
C5_Witness ==
    \E n \in Names :
        /\ Finished(n)
        /\ calls[n] = AllBuildsFail
        /\ InOnly(fs, n, FAILED_DIR)

(* C6: once the iteration of a task whose implementation call succeeded is  *)
(* over, the task is in done if and only if one of its builds returned      *)
(* zero, and it is in failed otherwise.                                     *)
C6_DoneIffSomeBuildZero ==
    \A n \in Names :
        (Finished(n) /\ calls[n][1].rc = 0) =>
            LET zero == \E i \in DOMAIN calls[n] : calls[n][i] = Ev("build", 0)
            IN /\ zero => InOnly(fs, n, DONE_DIR)
               /\ ~zero => InOnly(fs, n, FAILED_DIR)

\* a task failed because its second fix call failed, another one was done
C6_Witness ==
    \E n, m \in Names :
        /\ Finished(n)
        /\ calls[n] = <<Ev("implement", 0), Ev("build", 1), Ev("fix", 0),
                        Ev("build", 1), Ev("fix", 1)>>
        /\ InOnly(fs, n, FAILED_DIR)
        /\ Finished(m)
        /\ calls[m][1].rc = 0
        /\ InOnly(fs, m, DONE_DIR)

-----------------------------------------------------------------------------
(* C7: main_loop never ends on a per-task error: an error raised while the  *)
(* task file is read or moved is absorbed, the task is moved to failed and  *)
(* the loop keeps polling.                                                  *)
C7_LoopAbsorbsTaskErrors ==
    /\ pc # "crashed"
    /\ error # "none" => InOnly(fs, task_file.name, FAILED_DIR)

-----------------------------------------------------------------------------
\* s comes before t in code-point lexicographic order
LexBefore(s, t) ==
    \E i \in 1 .. (Len(t)) :
        /\ \A j \in 1 .. (i - 1) : j <= Len(s) /\ s[j] = t[j]
        /\ \/ i = Len(s) + 1
           \/ i <= Len(s) /\ s[i] < t[i]

\* the task files of pending: the names that end in ".md"
PendingTasks(f) ==
    {n \in Files(f, PENDING_DIR) :
        Len(n) >= 3 /\ <<n[Len(n) - 2], n[Len(n) - 1], n[Len(n)]>> = <<46, 109, 100>>}

(* C8: whenever a poll hands a task to the worker, that task is a task file *)
(* of pending and no task file of pending at that poll has a name that      *)
(* comes before it lexicographically: pending tasks are taken in name       *)
(* order, whatever the order they arrived in.                               *)
C8_SmallestNameFirst ==
    [][(pc = "poll" /\ pc' = "acquire") =>
          /\ task_file'.dir = PENDING_DIR
          /\ task_file'.name \in PendingTasks(fs)
          /\ \A m \in PendingTasks(fs) : ~LexBefore(m, task_file'.name)]_vars

\* "a-b.md" is taken while "a.md", not yet processed, waits in pending
C8_Witness ==
    /\ pc = "acquire"
    /\ task_file = Path(PENDING_DIR, Name_a_b)
    /\ Name_a \in Files(fs, PENDING_DIR)
    /\ calls[Name_a] = <<>>

(* C9: a poll that finds pending empty raises nothing, sets task_file to    *)
(* None and goes to sleep, and the sleep returns to the poll; neither step  *)
(* changes the contents of the four directories or calls the agent or the   *)
(* build.                                                                   *)
C9_EmptyPendingOnlySleeps ==
    /\ [][(pc = "poll" /\ Files(fs, PENDING_DIR) = {} /\ WorkerStep) =>
             /\ pc' = "sleep"
             /\ task_file' = None
             /\ fs' = fs /\ calls' = calls /\ error' = "none"]_vars
    /\ [][(pc = "sleep" /\ WorkerStep) =>
             /\ pc' = "poll"
             /\ fs' = fs /\ calls' = calls /\ error' = "none"]_vars

\* the worker sleeps on an empty pending directory after it has archived a task
C9_Witness ==
    /\ pc = "sleep"
    /\ task_file = None
    /\ Files(fs, PENDING_DIR) = {}
    /\ \E n \in Names : calls[n] # <<>> /\ InOnly(fs, n, DONE_DIR)

(* C10: the part of the build output put in the fix prompt is the suffix of *)
(* that output of length min(len(output), 1000): at most 1000 characters,   *)
(* and the whole output when it has at most 1000 characters.                *)
C10_PromptHoldsLogSuffix ==
    pc = "fix_codex" =>
        LET kept == IF Len(output) < 1000 THEN Len(output) ELSE 1000
        IN /\ Len(trimmed_log) = kept
           /\ Len(trimmed_log) <= 1000
           /\ trimmed_log = SubSeq(output, Len(output) - kept + 1, Len(output))
           /\ Len(output) <= 1000 => trimmed_log = output

\* a build output longer than 1000 characters has been cut for the prompt
C10_Witness ==
    /\ pc = "fix_codex"
    /\ Len(output) > 1000
    /\ Len(trimmed_log) = 1000
    /\ trimmed_log[1] = output[Len(output) - 999]

-----------------------------------------------------------------------------
(* C11: a worker step deletes nothing and renames nothing: every file of    *)
(* the store is, after the step, in some directory under the same name and  *)
(* with the same content, no new name appears, and a successful move to     *)
(* in_progress leaves the file under the name it had in pending.            *)
C11_MovesKeepNames ==
    [][WorkerStep =>
         /\ \A n \in Names : \A d \in Dirs :
               fs[<<d, n>>] # NoFile => \E d2 \in Dirs : fs'[<<d2, n>>] = fs[<<d, n>>]
         /\ \A n \in Names : DirsOf(fs', n) # {} => DirsOf(fs, n) # {}
         /\ (pc = "acquire" /\ pc' = "read") =>
               /\ task_file'.name = task_file.name
               /\ fs'[<<IN_PROGRESS_DIR, task_file.name>>] = fs[<<PENDING_DIR, task_file.name>>]
               /\ fs'[<<PENDING_DIR, task_file.name>>] = NoFile]_vars

\* a task has just been moved to in_progress while an archived one sits in failed
C11_Witness ==
    /\ pc = "read"
    /\ task_file.dir = IN_PROGRESS_DIR
    /\ Exists(fs, task_file)
    /\ \E n \in Names : calls[n] # <<>> /\ InOnly(fs, n, FAILED_DIR)

-----------------------------------------------------------------------------
(* C13: no task has more than 5 builds, and a build that returned zero is   *)
(* the last call made for its task: no build and no fix prompt follows it.  *)
C13_AtMostFiveBuilds ==
    \A n \in Names :
        /\ Len(CallsOf(calls[n], "build")) <= 5
        /\ \A i \in DOMAIN calls[n] :
              calls[n][i] = Ev("build", 0) => i = Len(calls[n])

\* one task stopped at its third build, which succeeded; another used all five
C13_Witness ==
    \E n, m \in Names :
        /\ Finished(n) /\ calls[n] = BuildsOnAttempt(2)
        /\ Finished(m) /\ Len(CallsOf(calls[m], "build")) = 5

(* C14: a fix call that failed is the last call made for its task; after it *)
(* the loop only finalizes, with build_success false, and once the          *)
(* iteration is over the task is in failed, however few builds were run.    *)
C14_FixFailureEndsLoop ==
    \A n \in Names : \A i \in DOMAIN calls[n] :
        (calls[n][i].op = "fix" /\ calls[n][i].rc # 0) =>
            /\ i = Len(calls[n])
            /\ InFlight(n) => (pc = "finalize" /\ ~build_success)
            /\ Finished(n) => InOnly(fs, n, FAILED_DIR)

\* a task went to failed after one build, its first fix call having failed
C14_Witness ==
    \E n \in Names :
        /\ Finished(n)
        /\ calls[n] = <<Ev("implement", 0), Ev("build", 1), Ev("fix", 1)>>
        /\ InOnly(fs, n, FAILED_DIR)

-----------------------------------------------------------------------------
\* a file of in_progress that no worker process took there: the worker starts
\* with task_file = None, so every file in in_progress at start is one
LeftInProgress(n) ==
    /\ InOnly(fs, n, IN_PROGRESS_DIR)
    /\ task_file.name # n
    /\ calls[n] = <<>>
    /\ acquired[n] = {}

(* C19: a file that is in in_progress without the worker having moved it    *)
(* there, as every file in in_progress at start is, stays so after every    *)
(* step: it is never the worker's task_file (so never read, never given to  *)
(* the agent), no call is recorded for it and it does not leave in_progress.*)
C19_LeftInProgressStays ==
    [][\A n \in Names :
          LeftInProgress(n) =>
             /\ InOnly(fs', n, IN_PROGRESS_DIR)
             /\ fs'[<<IN_PROGRESS_DIR, n>>] = fs[<<IN_PROGRESS_DIR, n>>]
             /\ task_file'.name # n
             /\ calls'[n] = <<>>
             /\ acquired'[n] = {}]_vars

\* a task file is still in in_progress, untouched, after the worker archived
\* another task and went to sleep on an empty pending directory
C19_Witness ==
    \E n, m \in Names :
        /\ LeftInProgress(n)
        /\ EndsWith(n, MdSuffix)
        /\ Finished(m) /\ InOnly(fs, m, DONE_DIR)
        /\ pc = "sleep"

-----------------------------------------------------------------------------
\* the three nodes in the order of the graph's edges
QaOrder == <<"read_qa", "analyze_qa", "save_report">>

(* C12: the nodes of the QA report generator run in the order read_qa,      *)
(* analyze_qa, save_report, none of them twice, and at END each has run     *)
(* once and the report file holds the report.  When release_qa.txt is       *)
(* missing, read_qa sets qa_text to "Q&A file missing.", the language-model *)
(* call is made with that text in its prompt, and the run reaches END with  *)
(* the report file written.                                                 *)
C12_QaRunsOnceInOrder ==
    /\ IsPrefix(qa.ran, QaOrder)
    /\ qa.node = "END" =>
          /\ qa.ran = QaOrder
          /\ qa.qa_decision # NoFile
          /\ qa.qa_decision = qa.state.report
    /\ qa.node = "analyze_qa" => qa.ran = <<"read_qa">>
    /\ qa.node = "save_report" => qa.ran = <<"read_qa", "analyze_qa">>
    /\ qa.release_qa = NoFile =>
          /\ qa.error = "none" /\ qa.node # "crashed"
          /\ Len(qa.ran) >= 1 => qa.state.qa_text = "Q&A file missing."
          /\ Len(qa.ran) >= 2 =>
                /\ qa.prompt.template # "none"
                /\ qa.prompt.qa_text = "Q&A file missing."

\* the checklist was missing and the run ended with a report written over an old one
C12_Witness ==
    /\ qa.release_qa = NoFile
    /\ qa.node = "END"
    /\ qa.ran = QaOrder
    /\ qa.prompt.qa_text = "Q&A file missing."
    /\ qa.qa_decision = "SAFE TO SHIP"

-----------------------------------------------------------------------------
\* main_loop is between the move to in_progress and the final move of its task
Holding == pc \in {"read", "implement", "build", "fix", "fix_codex", "finalize"}

(* C16: with a single worker started on an empty in_progress directory,     *)
(* in_progress never holds more than one file; whenever the worker is about *)
(* to read the task, call the agent, run a build or finalize, its task_file *)
(* is in in_progress and is the only file there, moved there by this        *)
(* worker; and calls are recorded only for tasks this worker moved there.   *)
C16_OneTaskInProgress ==
    /\ Cardinality(Files(fs, IN_PROGRESS_DIR)) <= 1
    /\ Holding =>
          /\ task_file.dir = IN_PROGRESS_DIR
          /\ Files(fs, IN_PROGRESS_DIR) = {task_file.name}
          /\ acquired[task_file.name] = {me}
    /\ \A n \in Names : calls[n] # <<>> => acquired[n] = {me}

\* a build is about to run for the only file of in_progress while another task waits
C16_Witness ==
    /\ pc = "build"
    /\ attempt = 2
    /\ Files(fs, IN_PROGRESS_DIR) = {task_file.name}
    /\ Glob(fs) # {}

-----------------------------------------------------------------------------
(* C15: when every agent and build call returns, a task the worker has      *)
(* moved to in_progress is eventually in done or in failed, unless a        *)
(* filesystem operation fails and ends main_loop.                           *)
C15_AcquiredTaskIsArchived ==
    \A n \in Names :
        (pc = "read" /\ task_file = Path(IN_PROGRESS_DIR, n))
            ~> (InOnly(fs, n, DONE_DIR) \/ InOnly(fs, n, FAILED_DIR) \/ error # "none")

\* a task this worker moved to in_progress is now in done and the worker polls again
C15_Witness ==
    \E n \in Names :
        /\ acquired[n] = {me}
        /\ InOnly(fs, n, DONE_DIR)
        /\ Len(calls[n]) = 6
        /\ pc = "poll"
        /\ error = "none"

(* C20: when every agent and build call returns and finitely many files are *)
(* dropped into pending, every .md file in pending is eventually moved to   *)
(* in_progress by the worker, unless a filesystem operation fails and ends  *)
(* main_loop.                                                               *)
C20_PendingTaskIsAcquired ==
    \A n \in Names :
        (EndsWith(n, MdSuffix) /\ fs[<<PENDING_DIR, n>>] # NoFile)
            ~> (acquired[n] # {} \/ error # "none")

\* "b.md", last in name order, has been acquired after "a-b.md" was processed
C20_Witness ==
    /\ pc = "read"
    /\ task_file = Path(IN_PROGRESS_DIR, Name_b)
    /\ acquired[Name_b] = {me}
    /\ acquired[Name_a_b] = {me}
    /\ error = "none"

-----------------------------------------------------------------------------
\* the worker step about to be taken moves task_file to directory d
MovesTo(d) ==
    \/ pc = "acquire" /\ d = IN_PROGRESS_DIR
    \/ pc = "implement" /\ d = FAILED_DIR
          /\ calls'[task_file.name] = Append(calls[task_file.name], Ev("implement", 1))
    \/ pc = "finalize" /\ d = (IF build_success THEN DONE_DIR ELSE FAILED_DIR)

(* C17: a move whose source file no longer exists, or whose target          *)
(* directory already holds a file of that name, raises a filesystem error   *)
(* and leaves every directory as it was: the file in the target directory   *)
(* is not overwritten and the source is not removed.                        *)
C17_FailedMoveChangesNothing ==
    [][\A d \in Dirs :
          (/\ WorkerStep
           /\ MovesTo(d)
           /\ \/ fs[<<task_file.dir, task_file.name>>] = NoFile
              \/ fs[<<d, task_file.name>>] # NoFile)
          => /\ fs' = fs
             /\ pc' = "crashed"
             /\ error' = IF fs[<<task_file.dir, task_file.name>>] = NoFile
                         THEN "FileNotFoundError" ELSE "FileExistsError"]_vars

\* the final move to done hit a file of the same name: both files are still there
C17_Witness ==
    /\ pc = "crashed"
    /\ error = "FileExistsError"
    /\ build_success
    /\ task_file.dir = IN_PROGRESS_DIR
    /\ fs[<<IN_PROGRESS_DIR, task_file.name>>] = "utf8_text"
    /\ fs[<<DONE_DIR, task_file.name>>] = "invalid_utf8"

-----------------------------------------------------------------------------
\* the other worker process is between its move to in_progress and its final move
PeerHolding ==
    peer.pc \in {"read", "implement", "build", "fix", "fix_codex", "finalize"}

(* C18: with two worker processes on one store, the move to in_progress     *)
(* succeeds for at most one process per task; a process reads a task, calls *)
(* the agent or the build for it, or finalizes it only if its own move      *)
(* succeeded, so the two never process the same task; and a task that is in *)
(* done or failed is not moved again.                                       *)
C18_NoTaskAcquiredTwice ==
    /\ [](/\ \A n \in Names : Cardinality(acquired[n]) <= 1
          /\ Holding => acquired[task_file.name] = {me}
          /\ PeerHolding => acquired[peer.task_file.name] = {peer.me}
          /\ (Holding /\ PeerHolding) => task_file.name # peer.task_file.name
          /\ \A n \in Names : calls[n] # <<>> => Cardinality(acquired[n]) = 1)
    /\ [][\A n \in Names :
             (DirsOf(fs, n) \cap {DONE_DIR, FAILED_DIR} # {}) =>
                 DirsOf(fs', n) = DirsOf(fs, n)]_vars

\* both processes polled "a.md"; process 1 moved and archived it, and the move
\* of process 2 then failed on the missing source
C18_Witness ==
    /\ acquired[Name_a] = {1}
    /\ InOnly(fs, Name_a, DONE_DIR)
    /\ peer.me = 2
    /\ peer.task_file = Path(PENDING_DIR, Name_a)
    /\ peer.error = "FileNotFoundError"
    /\ Holding
    /\ task_file = Path(IN_PROGRESS_DIR, Name_b)

====
